---- MODULE Spec2Model ----
(***************************************************************************)
(* A model of src/testing/starTrails_mask.py: the StarTrailGenerator       *)
(* object (its configuration, its accumulator fields) and its operations   *)
(* processImage and finalize, with the OpenCV / numpy primitives they use  *)
(* computed sample by sample.                                              *)
(*                                                                         *)
(* Rasters.  An image is a record [height, width, channels, px].  px is a  *)
(* sequence of samples, one per cell of Layout(height, width); a cell is a *)
(* block of weight-many pixels that all carry the same sample, so that a   *)
(* 100 x 100 raster can be written with a few cells.  A sample is the      *)
(* sequence of its channel values (<<v>> for a single-channel raster,      *)
(* <<b, g, r>> for a three-channel one), each 0..255.                      *)
(*                                                                         *)
(* Numbers.  cv2.mean is kept as the exact fraction [num, den]; the        *)
(* comparisons of the code are made by cross-multiplication.  The          *)
(* percentage pixel_cutoff_threshold is held in thousandths of a percent   *)
(* (0.1 % is 100), and pixels_cutoff in 1/PctScale of a pixel.             *)
(*                                                                         *)
(* image_processing_elapsed_s (wall-clock bookkeeping) is not modelled.    *)
(*                                                                         *)
(* Runs.  main is modelled step by step: the discovery, filtering and      *)
(* sorting of the files of inputdir, one step per file of the loop, and    *)
(* the call of finalize.  inputdir is the folder as the file system holds  *)
(* it; calls records, in order, the calls main has made on the object.     *)
(*                                                                         *)
(* src/timelapse.py: the IndiClient object and the callbacks the INDI      *)
(* library makes on it, with the devices and properties the server has     *)
(* announced.  src/indi_allsky/db/main.py: the camera table and addCamera. *)
(***************************************************************************)
EXTENDS Integers, Sequences, FiniteSets, TLC

VARIABLES
    max_brightness,               \* self._max_brightness
    mask_threshold,               \* self._mask_threshold
    pixel_cutoff_threshold,       \* self._pixel_cutoff_threshold (1/1000 %)
    trail_image,                  \* self.trail_image: None or an image
    trail_count,                  \* self.trail_count
    pixels_cutoff,                \* self.pixels_cutoff: None or [value |-> n]
    excluded_images,              \* self.excluded_images
    background_image,             \* self.background_image: None or an image
    background_image_brightness,  \* self.background_image_brightness
    image,                        \* the frame of the last call, None if it was finalize
    result,                       \* how the last call ended
    final_image,                  \* what the last call handed to cv2.imwrite
    inputdir,                     \* main: the items of the folder, in iterdir order
    file_list,                    \* main: the files getFolderFilesByExt found
    file_list_ordered,            \* main: the non-empty ones, sorted by st_mtime
    index,                        \* main: the files of the loop already read
    pc,                           \* main: "start", "loop" or "done"
    calls,                        \* main: the calls made on the object so far
    raised,                       \* main: the exception it ended with, None if none
    device,                       \* IndiClient.device: None or the device saved
    devices,                      \* the devices the server has announced
    properties,                   \* the properties it has defined: << device, name >>
    sent,                         \* what the client has sent to the server, in order
    threads,                      \* the ImageProcessorThreads started
    callback,                     \* the last callback and how it ended
    camera_table,                 \* the rows of IndiAllSkyDbCameraTable
    clock,                        \* the last value of datetime.datetime.now()
    camera,                       \* what the last addCamera returned
    camera_names                  \* the names addCamera has been called with

vars == << max_brightness, mask_threshold, pixel_cutoff_threshold,
           trail_image, trail_count, pixels_cutoff, excluded_images,
           background_image, background_image_brightness,
           image, result, final_image,
           inputdir, file_list, file_list_ordered, index, pc, calls, raised,
           device, devices, properties, sent, threads, callback,
           camera_table, clock, camera, camera_names >>

main_vars == << inputdir, file_list, file_list_ordered, index, pc, calls, raised >>

client_vars == << device, devices, properties, sent, threads, callback >>

db_vars == << camera_table, clock, camera, camera_names >>

-----------------------------------------------------------------------------
(* Values *)

None == [none |-> TRUE]

CvError == [error |-> "cv2.error"]

IsImage(x) == "px" \in DOMAIN x

\* __init__ defaults
DefaultMaxBrightness == 50
DefaultMaskThreshold == 190
DefaultPixelCutoffThreshold == 100
InitialBackgroundBrightness == 255
background_image_min_brightness == 10

\* finalize: the least trail_count it accepts, and its fixed mask threshold
MinTrailCount == 20
FinalizeThreshold == 10

\* pixel_cutoff_threshold / 100, with the threshold in thousandths of a percent
PctScale == 100000

\* Bounds of the model
MaxAccepted == 3
MaxRun == 21
MaxExcluded == 2
ScenarioFrames == 25
MaxFiles == 3
MaxSent == 6
MaxClock == 3

-----------------------------------------------------------------------------
(* Rasters *)

RECURSIVE SumSeq(_)
SumSeq(s) == IF s = << >> THEN 0 ELSE Head(s) + SumSeq(Tail(s))

Ones(n) == [i \in 1..n |-> 1]

\* The cells of a height x width raster and the number of pixels in each.
Layout(h, w) ==
    CASE h * w = 8     -> << 1, 1, 6 >>
      [] h * w = 100   -> << 90, 10 >>
      [] h * w = 10000 -> Ones(ScenarioFrames) \o << 10000 - ScenarioFrames >>

NCells(h, w) == Len(Layout(h, w))

Image(h, w, c, px) == [height |-> h, width |-> w, channels |-> c, px |-> px]

SameSize(a, b) == a.height = b.height /\ a.width = b.width

ZeroSample(c) == [k \in 1..c |-> 0]

\* numpy.zeros((h, w)) / numpy.zeros((h, w, 3))
numpy_zeros(h, w, c) == Image(h, w, c, [i \in 1..NCells(h, w) |-> ZeroSample(c)])

\* cv2.cvtColor(..., COLOR_BGR2GRAY) on 8-bit samples: fixed point, 14 bits
BGR2GRAY(s) == (s[1] * 1868 + s[2] * 9617 + s[3] * 4899 + 8192) \div 16384

\* "need grayscale image for mask generation"
GrayOf(img) ==
    IF img.channels = 1
    THEN img
    ELSE Image(img.height, img.width, 1,
               [i \in 1..Len(img.px) |-> << BGR2GRAY(img.px[i]) >>])

\* cv_mean with the sum of the samples left undivided
cv_mean_Sum(gray) ==
    LET lay == Layout(gray.height, gray.width)
    IN [num |-> SumSeq([i \in 1..Len(lay) |-> lay[i] * gray.px[i][1]]),
        den |-> 1]

\* cv2.mean(gray)[0], as a fraction
cv_mean(gray) ==
    LET lay == Layout(gray.height, gray.width)
    IN [num |-> SumSeq([i \in 1..Len(lay) |-> lay[i] * gray.px[i][1]]),
        den |-> gray.height * gray.width]

Less(a, b) == a.num * b.den < b.num * a.den

Whole(n) == [num |-> n, den |-> 1]

\* (gray > thold).sum()
CountAbove(gray, thold) ==
    LET lay == Layout(gray.height, gray.width)
    IN SumSeq([i \in 1..Len(lay) |->
                  IF gray.px[i][1] > thold THEN lay[i] ELSE 0])

\* cv2.threshold(gray, thold, 255, THRESH_BINARY)
cv_threshold(gray, thold) ==
    [gray EXCEPT !.px = [i \in 1..Len(gray.px) |->
                            IF gray.px[i][1] > thold THEN << 255 >> ELSE << 0 >>]]

\* cv_bitwise_not that hands the mask back as it is
cv_bitwise_not_Same(m) == m

cv_bitwise_not(m) ==
    [m EXCEPT !.px = [i \in 1..Len(m.px) |-> << 255 - m.px[i][1] >>]]

\* cv2.bitwise_and(src, src, mask=mask): the mask must have the size of src
cv_bitwise_and(src, mask) ==
    IF ~SameSize(src, mask)
    THEN CvError
    ELSE [src EXCEPT !.px = [i \in 1..Len(src.px) |->
                                IF mask.px[i][1] # 0 THEN src.px[i]
                                ELSE ZeroSample(src.channels)]]

SatAdd(x, y) == IF x + y > 255 THEN 255 ELSE x + y

\* cv2.add(a, b): saturating, the operands must agree in size and channels
cv_add(a, b) ==
    IF ~IsImage(a) \/ ~IsImage(b) THEN CvError
    ELSE IF ~SameSize(a, b) \/ a.channels # b.channels THEN CvError
    ELSE [a EXCEPT !.px = [i \in 1..Len(a.px) |->
                              [k \in 1..a.channels |-> SatAdd(a.px[i][k], b.px[i][k])]]]

-----------------------------------------------------------------------------
(* The StarTrailGenerator object *)

Self ==
    [max_brightness |-> max_brightness,
     mask_threshold |-> mask_threshold,
     pixel_cutoff_threshold |-> pixel_cutoff_threshold,
     trail_image |-> trail_image,
     trail_count |-> trail_count,
     pixels_cutoff |-> pixels_cutoff,
     excluded_images |-> excluded_images,
     background_image |-> background_image,
     background_image_brightness |-> background_image_brightness,
     result |-> result,
     final_image |-> final_image]

\* Allocate with the black base image made anew from every frame
Allocate_EveryCall(self, img) ==
    [self EXCEPT
        !.pixels_cutoff =
            IF self.trail_image = None
            THEN [value |-> (img.height * img.width) * self.pixel_cutoff_threshold]
            ELSE @,
        !.trail_image =
            numpy_zeros(img.height, img.width, IF img.channels = 1 THEN 1 ELSE 3)]

\* Allocate with pixels_cutoff computed anew from every frame
Allocate_CutoffEveryCall(self, img) ==
    [self EXCEPT
        !.pixels_cutoff =
            [value |-> (img.height * img.width) * self.pixel_cutoff_threshold],
        !.trail_image =
            IF self.trail_image = None
            THEN numpy_zeros(img.height, img.width, IF img.channels = 1 THEN 1 ELSE 3)
            ELSE @]

\* processImage, first block: on the first call, pixels_cutoff and the black
\* base image are set from the frame, before any filter is applied.
Allocate(self, img) ==
    IF self.trail_image = None
    THEN [self EXCEPT
            !.pixels_cutoff =
                [value |-> (img.height * img.width) * self.pixel_cutoff_threshold],
            !.trail_image =
                numpy_zeros(img.height, img.width,
                            IF img.channels = 1 THEN 1 ELSE 3)]
    ELSE self

\* Overbright with the frame compared against the wrong threshold
Overbright_AgainstMaskThreshold(self, img) ==
    Less(Whole(self.mask_threshold), cv_mean(GrayOf(img)))

\* m_avg > self._max_brightness
Overbright(self, img) ==
    Less(Whole(self.max_brightness), cv_mean(GrayOf(img)))

\* pixels_above_cutoff > self.pixels_cutoff
Saturated(self, img) ==
    CountAbove(GrayOf(img), self.mask_threshold) * PctScale > self.pixels_cutoff.value

\* NewBackground without the floor that keeps too dark frames out
NewBackground_NoFloor(self, img) ==
    Less(cv_mean(GrayOf(img)), self.background_image_brightness)

\* NewBackground with a frame as dim as the background taking its place
NewBackground_OrEqual(self, img) ==
    /\ ~Less(self.background_image_brightness, cv_mean(GrayOf(img)))
    /\ Less(Whole(background_image_min_brightness), cv_mean(GrayOf(img)))

\* m_avg < self.background_image_brightness and m_avg > self.background_image_min_brightness
NewBackground(self, img) ==
    /\ Less(cv_mean(GrayOf(img)), self.background_image_brightness)
    /\ Less(Whole(background_image_min_brightness), cv_mean(GrayOf(img)))

\* UpdateBackground that keeps the frame and forgets its score
UpdateBackground_ImageOnly(self, img) ==
    IF NewBackground(self, img)
    THEN [self EXCEPT !.background_image = img]
    ELSE self

\* the new low score and the permanent background
UpdateBackground(self, img) ==
    IF NewBackground(self, img)
    THEN [self EXCEPT !.background_image_brightness = cv_mean(GrayOf(img)),
                      !.background_image = img]
    ELSE self

\* Compose with the old trail left unmasked under the stars
Compose_TrailUnmasked(trail, img, thold) ==
    LET mask         == cv_threshold(GrayOf(img), thold)
        stars_masked == cv_bitwise_and(img, mask)
    IN  cv_add(trail, stars_masked)

\* Compose with the frame masked by the inverse mask too
Compose_StarsOnly(trail, img, thold) ==
    LET mask         == cv_threshold(GrayOf(img), thold)
        stars_masked == cv_bitwise_and(img, mask)
    IN  IF SameSize(trail, img) /\ trail.channels = img.channels
        THEN stars_masked ELSE CvError

\* "Put stars on background": the trail image with the frame's stars laid on it
Compose(trail, img, thold) ==
    LET mask         == cv_threshold(GrayOf(img), thold)
        mask_inv     == cv_bitwise_not(mask)
        bg_masked    == cv_bitwise_and(trail, mask_inv)
        stars_masked == cv_bitwise_and(img, mask)
    IN  cv_add(bg_masked, stars_masked)

\* ExcludeOverbright with the frame counted among the excluded images
ExcludeOverbright_Counted(self) ==
    [self EXCEPT !.excluded_images = @ + 1,
                 !.result = "ExcludedOverbright", !.final_image = None]

\* Line 116-118: the frame is left out for its brightness
ExcludeOverbright(self) ==
    [self EXCEPT !.result = "ExcludedOverbright", !.final_image = None]

\* ExcludeSaturated without the count
ExcludeSaturated_Uncounted(self) ==
    [self EXCEPT !.result = "ExcludedSaturated", !.final_image = None]

\* Line 123-126: the frame is left out for its count of bright pixels
ExcludeSaturated(self) ==
    [self EXCEPT !.excluded_images = @ + 1,
                 !.result = "ExcludedSaturated", !.final_image = None]

\* Line 128-150: the frame is counted, may become the background, and its
\* stars are laid on the trail image.  An exception of OpenCV leaves the
\* assignments made before it in place.
Accept(self, img) ==
    LET s2  == UpdateBackground([self EXCEPT !.trail_count = @ + 1], img)
        sum == Compose(self.trail_image, img, self.mask_threshold)
    IN  IF IsImage(sum)
        THEN [s2 EXCEPT !.trail_image = sum,
                        !.result = "Accepted", !.final_image = None]
        ELSE [s2 EXCEPT !.result = "cv2.error", !.final_image = None]

\* processImage with the two filters in the other order
processImage_CutoffFirst(self, img) ==
    LET s1 == Allocate(self, img)
    IN  IF Saturated(s1, img) THEN ExcludeSaturated(s1)
        ELSE IF Overbright(s1, img) THEN ExcludeOverbright(s1)
        ELSE Accept(s1, img)

\* processImage(filename, image): the object after the call
processImage(self, img) ==
    LET s1 == Allocate(self, img)
    IN  IF Overbright(s1, img) THEN ExcludeOverbright(s1)
        ELSE IF Saturated(s1, img) THEN ExcludeSaturated(s1)
        ELSE Accept(s1, img)

NoBackground == "InsufficentData: Background image not detected"
TooFewImages == "InsufficentData: Not enough images found to build star trail"

\* FinalImage with the mask taken at the configured mask threshold
FinalImage_MaskThreshold(self) ==
    LET mask         == cv_threshold(GrayOf(self.trail_image), self.mask_threshold)
        mask_inv     == cv_bitwise_not(mask)
        bg_masked    == cv_bitwise_and(self.background_image, mask_inv)
        stars_masked == cv_bitwise_and(self.trail_image, mask)
    IN  cv_add(bg_masked, stars_masked)

\* The image finalize builds: the trail over the background
FinalImage(self) ==
    LET mask         == cv_threshold(GrayOf(self.trail_image), FinalizeThreshold)
        mask_inv     == cv_bitwise_not(mask)
        bg_masked    == cv_bitwise_and(self.background_image, mask_inv)
        stars_masked == cv_bitwise_and(self.trail_image, mask)
    IN  cv_add(bg_masked, stars_masked)

\* finalize with the two checks in the other order
finalize_CountFirst(self) ==
    IF self.trail_count < MinTrailCount
    THEN [self EXCEPT !.result = TooFewImages, !.final_image = None]
    ELSE IF self.background_image = None
    THEN [self EXCEPT !.result = NoBackground, !.final_image = None]
    ELSE IF IsImage(FinalImage(self))
    THEN [self EXCEPT !.result = "Written", !.final_image = FinalImage(self)]
    ELSE [self EXCEPT !.result = "cv2.error", !.final_image = None]

\* finalize(outfile): the object after the call
finalize(self) ==
    IF self.background_image = None
    THEN [self EXCEPT !.result = NoBackground, !.final_image = None]
    ELSE IF self.trail_count < MinTrailCount
    THEN [self EXCEPT !.result = TooFewImages, !.final_image = None]
    ELSE IF IsImage(FinalImage(self))
    THEN [self EXCEPT !.result = "Written", !.final_image = FinalImage(self)]
    ELSE [self EXCEPT !.result = "cv2.error", !.final_image = None]

Assign(self) ==
    /\ max_brightness' = self.max_brightness
    /\ mask_threshold' = self.mask_threshold
    /\ pixel_cutoff_threshold' = self.pixel_cutoff_threshold
    /\ trail_image' = self.trail_image
    /\ trail_count' = self.trail_count
    /\ pixels_cutoff' = self.pixels_cutoff
    /\ excluded_images' = self.excluded_images
    /\ background_image' = self.background_image
    /\ background_image_brightness' = self.background_image_brightness
    /\ result' = self.result
    /\ final_image' = self.final_image

-----------------------------------------------------------------------------
(* Inputs *)

GraySample(S) == { << v >> : v \in S }

Black == << 0, 0, 0 >>
Grey  == << 20, 20, 20 >>
Blue  == << 60, 0, 0 >>
White == << 255, 255, 255 >>

\* 1 x 8 single-channel frames
FramesA ==
    { Image(1, 8, 1, << a, b, c >>) :
        a \in GraySample({0, 8, 200, 255}), b \in GraySample({0, 200}),
        c \in GraySample({0, 20}) }

\* 2 x 4 single-channel frames
FramesB ==
    { Image(2, 4, 1, << a, b, c >>) :
        a \in GraySample({0, 200}), b \in GraySample({0}),
        c \in GraySample({0, 20}) }

\* 1 x 8 three-channel frames
FramesC ==
    { Image(1, 8, 3, << a, b, c >>) :
        a \in {Black, Blue, White}, b \in {Black, White}, c \in {Black, Grey} }

Frames == FramesA \cup FramesB \cup FramesC

\* The frames of a long run
RunFrames ==
    { Image(1, 8, 1, << << 0 >>, << 0 >>, << 20 >> >>),
      Image(1, 8, 1, << << 200 >>, << 0 >>, << 0 >> >>),
      Image(1, 8, 1, << << 0 >>, << 200 >>, << 20 >> >>),
      Image(1, 8, 1, << << 8 >>, << 0 >>, << 0 >> >>),
      Image(1, 8, 1, << << 0 >>, << 8 >>, << 0 >> >>),
      Image(1, 8, 1, << << 100 >>, << 0 >>, << 0 >> >>),
      Image(1, 8, 1, << << 255 >>, << 200 >>, << 20 >> >>),
      Image(2, 4, 1, << << 0 >>, << 0 >>, << 20 >> >>),
      Image(1, 8, 3, << White, Black, Black >>),
      Image(1, 8, 3, << Blue, Black, Grey >>),
      Image(10, 10, 1, << << 255 >>, << 0 >> >>),
      Image(10, 10, 1, << << 191 >>, << 0 >> >>) }

\* The frame of a 100 x 100 run that is black but for one pixel, the i-th
StarFrame(i) ==
    Image(100, 100, 1,
          [p \in 1..NCells(100, 100) |-> IF p = i THEN << 255 >> ELSE << 0 >>])

MaxBrightnessValues == {DefaultMaxBrightness, 20}
MaskThresholdValues == {DefaultMaskThreshold, 5}
PixelCutoffThresholdValues == {DefaultPixelCutoffThreshold, 25000}

-----------------------------------------------------------------------------
(* Operations *)

\* __init__
Constructed ==
    /\ max_brightness = DefaultMaxBrightness
    /\ mask_threshold = DefaultMaskThreshold
    /\ pixel_cutoff_threshold = DefaultPixelCutoffThreshold
    /\ trail_image = None
    /\ trail_count = 0
    /\ pixels_cutoff = None
    /\ excluded_images = 0
    /\ background_image = None
    /\ background_image_brightness = Whole(InitialBackgroundBrightness)
    /\ image = None
    /\ result = "NoCall"
    /\ final_image = None

\* main has not been called
NotStarted ==
    /\ file_list = << >>
    /\ file_list_ordered = << >>
    /\ index = 0
    /\ pc = "start"
    /\ calls = << >>
    /\ raised = None

\* IndiClient(): no device saved, nothing announced, nothing sent
ClientCreated ==
    /\ device = None
    /\ devices = {}
    /\ properties = {}
    /\ sent = << >>
    /\ threads = 0
    /\ callback = [name |-> "none", takeExposure |-> FALSE, raised |-> None]

\* addCamera has not been called
NoCameraAdded ==
    /\ clock = 0
    /\ camera = None
    /\ camera_names = {}

\* An object whose methods are called one by one, without main
Init ==
    /\ Constructed
    /\ NotStarted
    /\ inputdir = << >>
    /\ ClientCreated
    /\ NoCameraAdded
    /\ camera_table = {}

\* The setters, called as __main__ calls them: before any frame is processed.
SetMaxBrightness(new_max) ==
    /\ trail_image = None
    /\ Assign([Self EXCEPT !.max_brightness = new_max])
    /\ UNCHANGED image
    /\ UNCHANGED << main_vars, client_vars, db_vars >>

SetMaskThreshold(new_thold) ==
    /\ trail_image = None
    /\ Assign([Self EXCEPT !.mask_threshold = new_thold])
    /\ UNCHANGED image
    /\ UNCHANGED << main_vars, client_vars, db_vars >>

SetPixelCutoffThreshold(new_thold) ==
    /\ trail_image = None
    /\ Assign([Self EXCEPT !.pixel_cutoff_threshold = new_thold])
    /\ UNCHANGED image
    /\ UNCHANGED << main_vars, client_vars, db_vars >>

ProcessImage(img) ==
    /\ Assign(processImage(Self, img))
    /\ image' = img
    /\ UNCHANGED << main_vars, client_vars, db_vars >>

Finalize ==
    /\ Assign(finalize(Self))
    /\ image' = None
    /\ UNCHANGED << main_vars, client_vars, db_vars >>

Configure ==
    \/ \E v \in MaxBrightnessValues : SetMaxBrightness(v)
    \/ \E v \in MaskThresholdValues : SetMaskThreshold(v)
    \/ \E v \in PixelCutoffThresholdValues : SetPixelCutoffThreshold(v)

\* Any frames, a few calls
Feed ==
    /\ trail_count < MaxAccepted
    /\ excluded_images < MaxExcluded
    /\ \E img \in Frames : ProcessImage(img)

Next ==
    \/ Configure
    \/ Feed
    \/ Finalize

Spec == Init /\ [][Next]_vars

\* A few frames, enough calls for finalize to have its MinTrailCount images
FeedRun ==
    /\ trail_count < MaxRun
    /\ excluded_images < MaxExcluded
    /\ \E img \in RunFrames : ProcessImage(img)

NextRun ==
    \/ Configure
    \/ FeedRun
    \/ Finalize

SpecRun == Init /\ [][NextRun]_vars

\* The run of the 100 x 100 frames that are black but for one pixel, each
\* frame with a pixel of its own, next to the pixels already laid
Beside(i) == { IF i = 1 THEN ScenarioFrames ELSE i - 1,
               IF i = ScenarioFrames THEN 1 ELSE i + 1 }

FeedStars ==
    \E i \in 1..ScenarioFrames :
        /\ IF trail_image = None THEN TRUE
           ELSE /\ trail_image.px[i] = << 0 >>
                /\ \E j \in Beside(i) : trail_image.px[j] # << 0 >>
        /\ ProcessImage(StarFrame(i))

NextStars ==
    \/ FeedStars
    \/ Finalize

SpecStars == Init /\ [][NextStars]_vars

-----------------------------------------------------------------------------
(* main: a run over the files of a folder *)

object_vars ==
    << max_brightness, mask_threshold, pixel_cutoff_threshold,
       trail_image, trail_count, pixels_cutoff, excluded_images,
       background_image, background_image_brightness, result, final_image >>

\* An item of a folder, as pathlib shows it: a regular file with its suffix,
\* its stat() and what cv2.imread makes of it (None when it cannot be
\* decoded), or a directory with its items.
File(suffix, st_size, st_mtime, imread) ==
    [is_file |-> TRUE, is_dir |-> FALSE, suffix |-> suffix,
     st_size |-> st_size, st_mtime |-> st_mtime, imread |-> imread,
     items |-> << >>]

Directory(items) ==
    [is_file |-> FALSE, is_dir |-> TRUE, suffix |-> "",
     st_size |-> 0, st_mtime |-> 0, imread |-> None, items |-> items]

\* The Path of a file: where it is, and what the calls on it answer
PathOf(item, path) ==
    [name |-> path, st_size |-> item.st_size, st_mtime |-> item.st_mtime,
     imread |-> item.imread]

\* extension_list = ['jpg']
dot_extension_list == { ".jpg" }

\* getFolderFilesByExt(folder, file_list): file_list with the files of the
\* folder and of its directories appended, from the i-th item on
RECURSIVE getFolderFilesByExt(_, _, _, _)
getFolderFilesByExt(folder, path, found, i) ==
    IF i > Len(folder) THEN found
    ELSE LET item == folder[i]
             here == path \o << i >>
             more == IF item.is_file /\ item.suffix \in dot_extension_list
                     THEN Append(found, PathOf(item, here))
                     ELSE IF item.is_dir
                     THEN getFolderFilesByExt(item.items, here, found, 1)
                     ELSE found
         IN  getFolderFilesByExt(folder, path, more, i + 1)

\* filter(lambda p: p.stat().st_size != 0, file_list)
NonZero(p) == p.st_size # 0

\* x put behind the files of s that are not newer than it
insort(s, x) ==
    LET k == Cardinality({ j \in 1..Len(s) : s[j].st_mtime <= x.st_mtime })
    IN  SubSeq(s, 1, k) \o << x >> \o SubSeq(s, k + 1, Len(s))

\* sorted with the list left as it was found
sorted_AsFound(s) == s

\* sorted(..., key=lambda p: p.stat().st_mtime): ascending and stable
RECURSIVE sorted(_)
sorted(s) ==
    IF s = << >> THEN << >>
    ELSE insort(sorted(SubSeq(s, 1, Len(s) - 1)), s[Len(s)])

\* Lines 61-68: the files are found, the empty ones dropped, the rest sorted
MainStart ==
    /\ pc = "start"
    /\ file_list' = getFolderFilesByExt(inputdir, << >>, << >>, 1)
    /\ file_list_ordered' = sorted(SelectSeq(file_list', NonZero))
    /\ pc' = "loop"
    /\ UNCHANGED << object_vars, image, inputdir, index, calls, raised >>
    /\ UNCHANGED << client_vars, db_vars >>

\* Lines 75-79: the file cannot be read as an image and is passed over
MainSkip ==
    /\ pc = "loop"
    /\ index < Len(file_list_ordered)
    /\ file_list_ordered[index + 1].imread = None
    /\ index' = index + 1
    /\ UNCHANGED << object_vars, image, inputdir, file_list, file_list_ordered,
                    pc, calls, raised >>
    /\ UNCHANGED << client_vars, db_vars >>

\* Lines 75-81: the file is read and processed; an exception of processImage
\* is not caught and ends main
MainProcess ==
    /\ pc = "loop"
    /\ index < Len(file_list_ordered)
    /\ file_list_ordered[index + 1].imread # None
    /\ Assign(processImage(Self, file_list_ordered[index + 1].imread))
    /\ image' = file_list_ordered[index + 1].imread
    /\ index' = index + 1
    /\ calls' = Append(calls, [op |-> "processImage",
                               file |-> file_list_ordered[index + 1],
                               result |-> result'])
    /\ pc' = IF result' = "cv2.error" THEN "done" ELSE "loop"
    /\ raised' = IF result' = "cv2.error" THEN CvError ELSE None
    /\ UNCHANGED << inputdir, file_list, file_list_ordered >>
    /\ UNCHANGED << client_vars, db_vars >>

\* Lines 84-91: finalize is called; InsufficentData is caught and logged, and
\* main returns; any other exception ends main
MainFinalize ==
    /\ pc = "loop"
    /\ index = Len(file_list_ordered)
    /\ Assign(finalize(Self))
    /\ image' = None
    /\ calls' = Append(calls, [op |-> "finalize", file |-> None,
                               result |-> result'])
    /\ pc' = "done"
    /\ raised' = IF result' = "cv2.error" THEN CvError ELSE None
    /\ UNCHANGED << inputdir, file_list, file_list_ordered, index >>
    /\ UNCHANGED << client_vars, db_vars >>

\* The frames the files of a run hold
Dim15   == Image(1, 8, 1, << << 0 >>, << 0 >>, << 20 >> >>)
Dim15b  == Image(1, 8, 1, << << 60 >>, << 60 >>, << 0 >> >>)
Dim40   == Image(1, 8, 1, << << 40 >>, << 40 >>, << 40 >> >>)
Starry  == Image(1, 8, 1, << << 200 >>, << 0 >>, << 0 >> >>)
Bright  == Image(1, 8, 1, << << 255 >>, << 255 >>, << 255 >> >>)
Other15 == Image(2, 4, 1, << << 0 >>, << 0 >>, << 20 >> >>)

MainFrames == { Dim15, Dim15b, Dim40, Starry, Bright, Other15 }

MTimes == 1..2

\* The items a folder may hold: empty files, files that do not decode, files
\* that hold a frame, a file of another suffix, and a directory
Items ==
    { File(".jpg", 0, t, None) : t \in MTimes }
    \cup { File(".jpg", 1, t, c) : t \in MTimes, c \in {None} \cup MainFrames }
    \cup { File(".png", 1, 1, Dim15) }
    \cup { Directory(<< File(".jpg", 1, 2, Dim15), File(".jpg", 1, 1, Dim40) >>) }

Folders == UNION { [1..n -> Items] : n \in 0..MaxFiles }

\* __main__ with the default arguments: sg.main(args.output, args.inputdir)
InitMain ==
    /\ Constructed
    /\ NotStarted
    /\ inputdir \in Folders
    /\ ClientCreated
    /\ NoCameraAdded
    /\ camera_table = {}

NextMain ==
    \/ MainStart
    \/ MainSkip
    \/ MainProcess
    \/ MainFinalize

SpecMain == InitMain /\ [][NextMain]_vars

-----------------------------------------------------------------------------
(* src/timelapse.py: the INDI client *)

CCD_NAME == "SVBONY SV305 0"

CCD_BINNING == 1
CCD_GAIN == 100
CCD_EXPOSURE == 15

AttributeError == [error |-> "AttributeError"]
TypeError == [error |-> "TypeError"]

\* The client while a callback runs: its fields, whether the callback has
\* called takeExposure, and the exception that ended it
Client ==
    [device |-> device, sent |-> sent, threads |-> threads,
     takeExposure |-> FALSE, raised |-> None]

\* A device as the library hands it to newDevice
Device(name) == [getDeviceName |-> name]

\* device.getNumber(name): the property vector, None if the device has none
\* of that name
getNumber(props, dev, name) ==
    IF << dev.getDeviceName, name >> \in props
    THEN [device |-> dev.getDeviceName, name |-> name]
    ELSE None

\* nvp = self.device.getNumber(name); nvp[0].value = value;
\* self.sendNewNumber(nvp): self.device may be None, and so may nvp
SetNumber(c, props, name, value) ==
    IF c.device = None
    THEN [c EXCEPT !.raised = AttributeError]
    ELSE IF getNumber(props, c.device, name) = None
    THEN [c EXCEPT !.raised = TypeError]
    ELSE [c EXCEPT !.sent = Append(@, [op |-> "sendNewNumber",
                                        device |-> c.device.getDeviceName,
                                        name |-> name, value |-> value])]

\* takeExposure(self)
takeExposure(c, props) ==
    SetNumber([c EXCEPT !.takeExposure = TRUE], props, "CCD_EXPOSURE", CCD_EXPOSURE)

\* Lines 73-74: the temperature is read and logged
LogTemperature(c, props) ==
    IF c.device = None
    THEN [c EXCEPT !.raised = AttributeError]
    ELSE IF getNumber(props, c.device, "CCD_TEMPERATURE") = None
    THEN [c EXCEPT !.raised = TypeError]
    ELSE c

\* Lines 57-65: the device saved is connected and its BLOBs are asked for
Connect(c, pName, pDeviceName) ==
    IF /\ c.device # None /\ pName = "CONNECTION"
       /\ pDeviceName = c.device.getDeviceName
    THEN [c EXCEPT !.sent = @ \o << [op |-> "connectDevice",
                                      device |-> c.device.getDeviceName,
                                      name |-> "CONNECTION", value |-> 1],
                                     [op |-> "setBLOBMode",
                                      device |-> c.device.getDeviceName,
                                      name |-> "BLOB", value |-> 1] >>]
    ELSE c

\* newDevice(self, d)
newDevice(c, d) ==
    IF d.getDeviceName = CCD_NAME THEN [c EXCEPT !.device = d] ELSE c

\* newProperty(self, p)
newProperty(c, props, pName, pDeviceName) ==
    LET c1 == Connect(c, pName, pDeviceName)
    IN  IF pName = "CCD_EXPOSURE" THEN takeExposure(c1, props)
        ELSE IF pName = "CCD_TEMPERATURE" THEN LogTemperature(c1, props)
        ELSE IF pName = "CCD_BINNING"
        THEN SetNumber(c1, props, "CCD_BINNING", CCD_BINNING)
        ELSE IF pName = "CCD_GAIN"
        THEN SetNumber(c1, props, "CCD_GAIN", CCD_GAIN)
        ELSE c1

\* newBLOB(self, bp)
newBLOB(c, props) ==
    takeExposure([c EXCEPT !.threads = @ + 1], props)

AssignClient(c, name) ==
    /\ device' = c.device
    /\ sent' = c.sent
    /\ threads' = c.threads
    /\ callback' = [name |-> name, takeExposure |-> c.takeExposure,
                    raised |-> c.raised]

\* The devices of the server and the names of their properties
DeviceNames == { CCD_NAME, "CCD Simulator" }

PropertyNames ==
    { "CONNECTION", "CCD_EXPOSURE", "CCD_TEMPERATURE", "CCD_BINNING", "CCD_GAIN" }

\* The exposures asked for, and whether BLOBs have been asked for
Exposures ==
    { i \in 1..Len(sent) :
        sent[i].op = "sendNewNumber" /\ sent[i].name = "CCD_EXPOSURE" }

BLOBsEnabled == \E i \in 1..Len(sent) : sent[i].op = "setBLOBMode"

\* The server announces a device it has not announced yet
NewDevice ==
    \E d \in DeviceNames \ devices :
        /\ devices' = devices \cup { d }
        /\ AssignClient(newDevice(Client, Device(d)), "newDevice")
        /\ UNCHANGED properties
        /\ UNCHANGED << object_vars, image, main_vars, db_vars >>

\* The server defines a property of a device it has announced
NewProperty ==
    \E d \in devices : \E n \in PropertyNames :
        /\ << d, n >> \notin properties
        /\ Len(sent) < MaxSent
        /\ properties' = properties \cup { << d, n >> }
        /\ AssignClient(newProperty(Client, properties', n, d), "newProperty")
        /\ UNCHANGED devices
        /\ UNCHANGED << object_vars, image, main_vars, db_vars >>

\* The server delivers the image of an exposure the client has asked for
NewBLOB ==
    /\ BLOBsEnabled
    /\ threads < Cardinality(Exposures)
    /\ Len(sent) < MaxSent
    /\ AssignClient(newBLOB(Client, properties), "newBLOB")
    /\ UNCHANGED << devices, properties >>
    /\ UNCHANGED << object_vars, image, main_vars, db_vars >>

\* __main__ of timelapse.py: the client is created and the server connected
InitClient ==
    /\ Constructed
    /\ NotStarted
    /\ inputdir = << >>
    /\ ClientCreated
    /\ NoCameraAdded
    /\ camera_table = {}

NextClient ==
    \/ NewDevice
    \/ NewProperty
    \/ NewBLOB

SpecClient == InitClient /\ [][NextClient]_vars

-----------------------------------------------------------------------------
(* src/indi_allsky/db/main.py: the camera table *)

NoResultFound == [error |-> "NoResultFound"]
MultipleResultsFound == [error |-> "MultipleResultsFound"]

\* The rows of the table whose name is camera_name
Matching(table, camera_name) == { r \in table : r.name = camera_name }

\* query(...).filter(name == camera_name).one(): the row, if there is exactly
\* one, and an exception otherwise
one(table, camera_name) ==
    LET rows == Matching(table, camera_name)
    IN  IF rows = {} THEN NoResultFound
        ELSE IF Cardinality(rows) > 1 THEN MultipleResultsFound
        ELSE CHOOSE r \in rows : TRUE

\* The id the database gives a row that is added
NextId(table) ==
    IF table = {} THEN 1
    ELSE 1 + (CHOOSE i \in { r.id : r \in table } :
                 \A r \in table : r.id <= i)

\* IndiAllSkyDbCameraTable(name=camera_name, connectDate=now), added and
\* committed
NewCamera(table, camera_name, now) ==
    [id |-> NextId(table), name |-> camera_name, connectDate |-> now]

\* addCamera that adds a row whether or not the name is there
addCamera_AlwaysAdd(table, camera_name, now) ==
    [table  |-> table \cup { NewCamera(table, camera_name, now) },
     camera |-> NewCamera(table, camera_name, now),
     raised |-> None]

\* addCamera(self, camera_name): the table after the commit, the row
\* returned, and the exception if one is raised
addCamera(table, camera_name, now) ==
    LET found == one(table, camera_name)
    IN  IF found = MultipleResultsFound
        THEN [table |-> table, camera |-> None, raised |-> MultipleResultsFound]
        ELSE IF found = NoResultFound
        THEN [table  |-> table \cup { NewCamera(table, camera_name, now) },
              camera |-> NewCamera(table, camera_name, now),
              raised |-> None]
        ELSE [table  |-> (table \ { found })
                           \cup { [found EXCEPT !.connectDate = now] },
              camera |-> [found EXCEPT !.connectDate = now],
              raised |-> None]

CameraNames == { CCD_NAME, "CCD Simulator", "ZWO CCD ASI290MM" }

\* A call of addCamera, at a time not before the last call's
AddCamera(camera_name, now) ==
    /\ camera_table' = addCamera(camera_table, camera_name, now).table
    /\ camera' = addCamera(camera_table, camera_name, now).camera
    /\ clock' = now
    /\ camera_names' = camera_names \cup { camera_name }
    /\ UNCHANGED << object_vars, image, main_vars, client_vars >>

\* IndiAllSkyDb(config): a session on a database that is new, or that an
\* earlier session has added a camera to
InitDb ==
    /\ Constructed
    /\ NotStarted
    /\ inputdir = << >>
    /\ ClientCreated
    /\ NoCameraAdded
    /\ camera_table \in { {}, { NewCamera({}, CCD_NAME, 0) } }

NextDb ==
    \E camera_name \in CameraNames : \E now \in clock..MaxClock :
        AddCamera(camera_name, now)

SpecDb == InitDb /\ [][NextDb]_vars

-----------------------------------------------------------------------------
(* What the properties below speak of *)

Channels(img) == IF img.channels = 1 THEN 1 ELSE 3

\* The trail image a call works on: the one it finds, or the black one it
\* allocates when it is the first call.
TrailAtCall(img) ==
    IF trail_image = None
    THEN numpy_zeros(img.height, img.width, Channels(img))
    ELSE trail_image

\* The step is a call processImage(image')
ProcessStep == image' # None /\ ProcessImage(image')

\* The frame's mean luminance is strictly above n
MeanAbove(img, n) == cv_mean(GrayOf(img)).num > n * cv_mean(GrayOf(img)).den

\* The frame's grayscale sample at cell p is strictly above the mask threshold
Star(img, p) == GrayOf(img).px[p][1] > mask_threshold

Cells(img) == 1..Len(img.px)

BackgroundSame ==
    /\ background_image' = background_image
    /\ background_image_brightness' = background_image_brightness

-----------------------------------------------------------------------------
(* C1, as stated: a call on a frame whose mean is strictly above            *)
(* max_brightness, the first call of a run included, leaves trail_image,    *)
(* background_image, its score, trail_count and excluded_images as they     *)
(* were and ends as ExcludedOverbright.                                     *)
C1_OverbrightChangesNothing ==
    [][ (ProcessStep /\ MeanAbove(image', max_brightness))
          => /\ trail_image' = trail_image
             /\ BackgroundSame
             /\ trail_count' = trail_count
             /\ excluded_images' = excluded_images
             /\ result' = "ExcludedOverbright" ]_vars

(* C1, amended: as above, except that trail_image is the one the call works *)
(* on: on the first call of a run that is the all-zero raster of the        *)
(* frame's height and width the call allocates, and pixels_cutoff is set.   *)
C1_OverbrightKeepsAccumulator ==
    [][ (ProcessStep /\ MeanAbove(image', max_brightness))
          => /\ trail_image' = TrailAtCall(image')
             /\ BackgroundSame
             /\ trail_count' = trail_count
             /\ excluded_images' = excluded_images
             /\ pixels_cutoff # None => pixels_cutoff' = pixels_cutoff
             /\ result' = "ExcludedOverbright" ]_vars

\* An overbright frame was turned away by an accumulator that holds a painted
\* trail, a background and counts.
C1_Witness ==
    /\ result = "ExcludedOverbright"
    /\ image # None /\ MeanAbove(image, max_brightness)
    /\ trail_count > 0 /\ excluded_images > 0
    /\ background_image # None
    /\ \E p \in Cells(trail_image) : trail_image.px[p] # ZeroSample(trail_image.channels)

-----------------------------------------------------------------------------
\* The frame passes the brightness filter and fails the pixel-cutoff filter:
\* more grayscale samples above mask_threshold than the cutoff of the run.
TooManyStars(img, cutoff) ==
    /\ ~MeanAbove(img, max_brightness)
    /\ CountAbove(GrayOf(img), mask_threshold) * PctScale > cutoff.value

(* C2, as stated: every call on a frame that is not overbright and has more *)
(* bright pixels than pixels_cutoff adds exactly 1 to excluded_images and   *)
(* leaves trail_image, background_image, its score and trail_count as they  *)
(* were.                                                                    *)
C2_SaturatedOnlyCounts ==
    [][ (ProcessStep /\ TooManyStars(image', pixels_cutoff'))
          => /\ excluded_images' = excluded_images + 1
             /\ trail_image' = trail_image
             /\ BackgroundSame
             /\ trail_count' = trail_count ]_vars

(* C2, amended: as above, except that trail_image is the one the call works *)
(* on: the first call of a run allocates it, all-zero, before it filters.   *)
C2_SaturatedCountsAndKeeps ==
    [][ (ProcessStep /\ TooManyStars(image', pixels_cutoff'))
          => /\ excluded_images' = excluded_images + 1
             /\ trail_image' = TrailAtCall(image')
             /\ BackgroundSame
             /\ trail_count' = trail_count
             /\ result' = "ExcludedSaturated" ]_vars

\* A frame with too many bright pixels was turned away by an accumulator that
\* holds a painted trail and a background.
C2_Witness ==
    /\ result = "ExcludedSaturated"
    /\ image # None /\ TooManyStars(image, pixels_cutoff)
    /\ excluded_images >= 1 /\ trail_count > 0
    /\ background_image # None
    /\ \E p \in Cells(trail_image) : trail_image.px[p] # ZeroSample(trail_image.channels)

-----------------------------------------------------------------------------
(* C3: when a call accepts a frame, each cell of trail_image at which the   *)
(* frame's grayscale sample is strictly above mask_threshold holds the      *)
(* frame's own sample afterwards, and every other cell holds what it held   *)
(* when the call began (zero, if this call allocated the raster); and no    *)
(* step at all turns a painted (non-zero) cell of trail_image into zero.    *)
C3_StarsOverwriteRestKept ==
    [][ /\ (ProcessStep /\ result' = "Accepted")
          => \A p \in Cells(image') :
                IF Star(image', p)
                THEN trail_image'.px[p] = image'.px[p]
                ELSE trail_image'.px[p] = TrailAtCall(image').px[p]
        /\ trail_image # None
          => /\ trail_image' # None
             /\ \A p \in Cells(trail_image) :
                   trail_image.px[p] # ZeroSample(trail_image.channels)
                     => trail_image'.px[p] # ZeroSample(trail_image.channels) ]_vars

\* An accepted frame laid a star on one cell while another cell, where the
\* frame has no star, keeps the star an earlier frame painted there.
C3_Witness ==
    /\ result = "Accepted" /\ image # None
    /\ \E p, q \in Cells(image) :
          /\ Star(image, p) /\ trail_image.px[p] = image.px[p]
          /\ ~Star(image, q)
          /\ trail_image.px[q] # ZeroSample(trail_image.channels)
          /\ trail_image.px[q] # image.px[q]

-----------------------------------------------------------------------------
SameShape(a, b) == SameSize(a, b) /\ a.channels = b.channels

StarCells(img) == { p \in Cells(img) : Star(img, p) }

\* The frames of the established dimensions (of any, before the first call)
\* that the present object accepts
AcceptedNow ==
    { A \in Frames :
        /\ trail_image # None => SameShape(A, trail_image)
        /\ processImage(Self, A).result = "Accepted" }

(* C4: in every state, for any two frames A and B of the established        *)
(* dimensions (of one shape, before the first call) that are accepted in    *)
(* either order and whose star masks are disjoint, processing A then B      *)
(* leaves the same trail_image as processing B then A.                      *)
C4_DisjointStarsCommute ==
    LET acc == AcceptedNow
    IN  \A A \in acc : \A B \in acc :
            (SameShape(A, B) /\ StarCells(A) \cap StarCells(B) = {})
            => LET ab == processImage(processImage(Self, A), B)
                   ba == processImage(processImage(Self, B), A)
               IN  (ab.result = "Accepted" /\ ba.result = "Accepted")
                   => ab.trail_image = ba.trail_image

\* The trail image holds the stars of two accepted frames with disjoint,
\* non-empty star masks, the second of them the frame just processed, laid on
\* in this order, and is what the other order would have made of them.
C4_Witness ==
    /\ result = "Accepted" /\ image # None /\ trail_count = 2
    /\ \E A \in Frames :
          /\ SameShape(A, image)
          /\ StarCells(A) # {} /\ StarCells(image) # {}
          /\ StarCells(A) \cap StarCells(image) = {}
          /\ trail_image
               = Compose(Compose(TrailAtCall(image), A, mask_threshold),
                         image, mask_threshold)
          /\ trail_image
               = Compose(Compose(numpy_zeros(A.height, A.width, Channels(A)),
                                 image, mask_threshold),
                         A, mask_threshold)

-----------------------------------------------------------------------------
\* The frame's mean lies in the open interval
\* (background_image_min_brightness, the score before the call)
Qualifies(img) ==
    /\ Less(Whole(background_image_min_brightness), cv_mean(GrayOf(img)))
    /\ Less(cv_mean(GrayOf(img)), background_image_brightness)

SameNumber(a, b) == ~Less(a, b) /\ ~Less(b, a)

(* C5: no step raises background_image_brightness; a call that changes it   *)
(* sets it to the mean m of its frame, with                                 *)
(* background_image_min_brightness < m < the score before the call; and a   *)
(* call on a frame whose mean is outside that interval changes neither the  *)
(* score nor background_image.                                              *)
C5_ScoreOnlyFalls ==
    [][ /\ ~Less(background_image_brightness, background_image_brightness')
        /\ ProcessStep
          => /\ ~SameNumber(background_image_brightness', background_image_brightness)
                 => /\ SameNumber(background_image_brightness', cv_mean(GrayOf(image')))
                    /\ Qualifies(image')
             /\ ~Qualifies(image') => BackgroundSame ]_vars

\* A frame dimmer than the background, but not above the floor, was accepted
\* and did not take the background's place.
C5_Witness ==
    /\ result = "Accepted" /\ image # None
    /\ background_image # None /\ background_image # image
    /\ Less(cv_mean(GrayOf(image)), background_image_brightness)
    /\ ~Less(Whole(background_image_min_brightness), cv_mean(GrayOf(image)))
    /\ Less(background_image_brightness, Whole(InitialBackgroundBrightness))

-----------------------------------------------------------------------------
\* The last call was finalize
Finalized ==
    image = None /\ result \in {NoBackground, TooFewImages, "Written", "cv2.error"}

InsufficentData == {NoBackground, TooFewImages}

(* C6, as stated: finalize fails with InsufficentData when trail_count is   *)
(* 0, fails when it is MinTrailCount - 1, and writes the composite when it  *)
(* is MinTrailCount and a background image is present.                      *)
C6_FinalizeAtTheMinimum ==
    Finalized =>
        /\ trail_count = 0 => result \in InsufficentData
        /\ trail_count = MinTrailCount - 1 => result \in InsufficentData
        /\ (trail_count = MinTrailCount /\ background_image # None)
             => (result = "Written" /\ IsImage(final_image))

-----------------------------------------------------------------------------
(* C7: after finalize, the reason is the no-background one whenever         *)
(* background_image is absent, whatever trail_count is, and it is the       *)
(* too-few-images one exactly when background_image is present and          *)
(* trail_count < MinTrailCount.                                             *)
C7_ReasonsInOrder ==
    Finalized =>
        /\ background_image = None => result = NoBackground
        /\ result = TooFewImages
             <=> (background_image # None /\ trail_count < MinTrailCount)

\* finalize met both failures at once, after some frames were accepted, and
\* gave the no-background reason
C7_Witness ==
    /\ Finalized /\ result = NoBackground
    /\ background_image = None
    /\ 0 < trail_count /\ trail_count < MinTrailCount

-----------------------------------------------------------------------------
(* C8, as stated: once the dimensions are established, a call on a frame    *)
(* whose height, width or channel count differs from them ends in an error  *)
(* (never as ExcludedOverbright, ExcludedSaturated or Accepted), and a call *)
(* on a frame that matches them does not fail.                              *)
C8_MismatchIsAnError ==
    [][ (ProcessStep /\ trail_image # None)
          => IF SameShape(image', trail_image)
             THEN result' \in {"ExcludedOverbright", "ExcludedSaturated", "Accepted"}
             ELSE result' = "cv2.error" ]_vars

-----------------------------------------------------------------------------
\* The pixels of a raster that are not zero
NonZeroPixels(img) ==
    LET lay == Layout(img.height, img.width)
    IN  SumSeq([p \in 1..Len(lay) |->
                   IF img.px[p] # ZeroSample(img.channels) THEN lay[p] ELSE 0])

(* C9, as stated: after the ScenarioFrames frames of the run of one-pixel   *)
(* frames, trail_count is their number and excluded_images 0, finalize      *)
(* writes an image, and that image has exactly that many non-zero pixels.   *)
C9_StarsRunIsWritten ==
    (Finalized /\ trail_count = ScenarioFrames)
        => /\ excluded_images = 0
           /\ result = "Written"
           /\ IsImage(final_image)
           /\ NonZeroPixels(final_image) = ScenarioFrames

(* C9, amended: every frame of the run is accepted and none excluded, so    *)
(* trail_count is the number of frames fed and trail_image is non-zero at   *)
(* exactly their pixels (255 there); no frame becomes the background, since *)
(* each mean is below background_image_min_brightness, and so finalize      *)
(* fails for want of a background and writes nothing.                       *)
C9_StarsRunHasNoBackground ==
    /\ excluded_images = 0
    /\ background_image = None
    /\ final_image = None
    /\ image # None => result = "Accepted"
    /\ Finalized => result = NoBackground
    /\ trail_image # None
         => /\ NonZeroPixels(trail_image) = trail_count
            /\ \A p \in Cells(trail_image) :
                  /\ trail_image.px[p] \in {<< 0 >>, << 255 >>}
                  /\ trail_image.px[p] # << 0 >> => p \in 1..ScenarioFrames
            /\ image # None
                 => \A p \in Cells(image) :
                       image.px[p] # << 0 >> => trail_image.px[p] = image.px[p]

\* All the frames of the run were fed and finalize was called
C9_Witness ==
    /\ Finalized /\ result = NoBackground
    /\ trail_count = ScenarioFrames /\ excluded_images = 0
    /\ NonZeroPixels(trail_image) = ScenarioFrames
    /\ \A p \in 1..ScenarioFrames : trail_image.px[p] = << 255 >>

-----------------------------------------------------------------------------
DefaultConfiguration ==
    /\ max_brightness = DefaultMaxBrightness
    /\ mask_threshold = DefaultMaskThreshold
    /\ pixel_cutoff_threshold = DefaultPixelCutoffThreshold

\* Nine in ten pixels of the frame are strictly above mask_threshold
NineInTenBright(img) ==
    10 * CountAbove(GrayOf(img), mask_threshold) = 9 * (img.height * img.width)

(* C10, as stated: with the default configuration, the first frame of a     *)
(* run, nine in ten of whose pixels are above mask_threshold, ends as       *)
(* ExcludedSaturated with excluded_images = 1.                              *)
C10_BrightFrameIsSaturated ==
    [][ (ProcessStep /\ trail_image = None /\ DefaultConfiguration
           /\ NineInTenBright(image'))
          => (result' = "ExcludedSaturated" /\ excluded_images' = 1) ]_vars

(* C10, amended: such a frame ends as ExcludedOverbright with               *)
(* excluded_images = 0: its mean is above max_brightness and the brightness *)
(* filter comes first.                                                      *)
C10_BrightFrameIsOverbright ==
    [][ (ProcessStep /\ trail_image = None /\ DefaultConfiguration
           /\ NineInTenBright(image'))
          => /\ MeanAbove(image', max_brightness)
             /\ result' = "ExcludedOverbright"
             /\ excluded_images' = 0 /\ trail_count' = 0 ]_vars

\* The frame with the least mean of those, 191 on nine pixels in ten and 0 on
\* the rest, was the first frame of a run
C10_Witness ==
    /\ DefaultConfiguration
    /\ image # None /\ NineInTenBright(image)
    /\ ~MeanAbove(image, 172)
    /\ result = "ExcludedOverbright"
    /\ trail_image = numpy_zeros(image.height, image.width, 1)
    /\ trail_count = 0 /\ excluded_images = 0

-----------------------------------------------------------------------------
\* The calls of finalize a run has made
FinalizeCalls == { i \in 1..Len(calls) : calls[i].op = "finalize" }

(* C11, as stated: when the finalize of a run fails with InsufficentData,   *)
(* the failure reaches whoever called main: main ends with that exception   *)
(* (it returns no value through which it could hand the failure back), and  *)
(* finalize is not called a second time.                                    *)
C11_FailureReachesCaller ==
    (pc = "done" /\ image = None /\ result \in InsufficentData)
        => /\ raised = [error |-> result]
           /\ Cardinality(FinalizeCalls) = 1

-----------------------------------------------------------------------------
\* The calls of processImage a run has made, and the frame of each
ProcessCalls == { i \in 1..Len(calls) : calls[i].op = "processImage" }

FrameOf(i) == calls[i].file.imread

\* Every frame processed so far has the established dimensions
AllEstablished ==
    \A i \in ProcessCalls : SameShape(FrameOf(i), trail_image)

\* mean <= max_brightness
PassesBrightness(img) == ~MeanAbove(img, max_brightness)

\* bright-pixel count <= pixels_cutoff
PassesCutoff(img) ==
    CountAbove(GrayOf(img), mask_threshold) * PctScale <= pixels_cutoff.value

(* C12: at every point of a run whose processed frames all have the         *)
(* established dimensions, trail_count is the number of processed frames    *)
(* that passed both filters, excluded_images the number of those that       *)
(* passed the brightness filter and failed the pixel-cutoff filter, and     *)
(* their sum is at most the number of frames processed (overbright frames   *)
(* are in neither).                                                         *)
C12_CountsAreTallies ==
    AllEstablished =>
        /\ trail_count
             = Cardinality({ i \in ProcessCalls :
                   PassesBrightness(FrameOf(i)) /\ PassesCutoff(FrameOf(i)) })
        /\ excluded_images
             = Cardinality({ i \in ProcessCalls :
                   PassesBrightness(FrameOf(i)) /\ ~PassesCutoff(FrameOf(i)) })
        /\ trail_count + excluded_images <= Cardinality(ProcessCalls)

\* A run processed an accepted frame, a saturated one and an overbright one
C12_Witness ==
    /\ pc = "done" /\ AllEstablished
    /\ Cardinality(ProcessCalls) = 3
    /\ trail_count = 1 /\ excluded_images = 1
    /\ \E i \in ProcessCalls : ~PassesBrightness(FrameOf(i))

-----------------------------------------------------------------------------
\* The step is a call of finalize
FinalizeStep == image' = None /\ Finalize

(* C13, as stated: finalize may be called after any frames, also after      *)
(* none: it ends with a written composite or with InsufficentData, never    *)
(* with another failure, and it leaves trail_image, background_image, its   *)
(* score, trail_count and excluded_images as they were.                     *)
C13_FinalizeAnywhere ==
    [][ FinalizeStep
          => /\ result' \in InsufficentData \cup {"Written"}
             /\ trail_image' = trail_image
             /\ BackgroundSame
             /\ trail_count' = trail_count
             /\ excluded_images' = excluded_images ]_vars

-----------------------------------------------------------------------------
(* C14: the first call of processImage gives trail_image the height, the    *)
(* width and the channel count of its frame, all-zero but for the stars     *)
(* that very call lays on it if it accepts the frame; from then on every    *)
(* step, whatever frame it processes and however it ends, leaves            *)
(* trail_image with that height, width and channel count.                   *)
C14_ShapeSetOnce ==
    [][ /\ (ProcessStep /\ trail_image = None)
          => /\ trail_image'.height = image'.height
             /\ trail_image'.width = image'.width
             /\ trail_image'.channels = image'.channels
             /\ \A p \in Cells(image') :
                   \/ trail_image'.px[p] = ZeroSample(image'.channels)
                   \/ /\ result' = "Accepted" /\ Star(image', p)
                      /\ trail_image'.px[p] = image'.px[p]
        /\ trail_image # None
          => /\ trail_image' # None
             /\ trail_image'.height = trail_image.height
             /\ trail_image'.width = trail_image.width
             /\ trail_image'.channels = trail_image.channels ]_vars

\* A painted trail image kept its shape through accepted and excluded
\* frames, the last of them a frame of another shape
C14_Witness ==
    /\ image # None /\ trail_image # None
    /\ ~SameShape(image, trail_image)
    /\ trail_count >= 2 /\ excluded_images >= 1
    /\ \E p \in Cells(trail_image) : trail_image.px[p] # ZeroSample(trail_image.channels)

-----------------------------------------------------------------------------
\* The grayscale value of the raster at cell p
GrayAt(img, p) == GrayOf(img).px[p][1]

(* C15: when finalize has written its image, that image holds at every      *)
(* cell the sample of trail_image if the grayscale value of trail_image     *)
(* there is strictly above 10, and the sample of background_image           *)
(* otherwise, whatever mask_threshold is configured.                        *)
C15_OutputIsTrailOverBackground ==
    (Finalized /\ result = "Written")
        => \A p \in Cells(final_image) :
              final_image.px[p] =
                  IF GrayAt(trail_image, p) > FinalizeThreshold
                  THEN trail_image.px[p]
                  ELSE background_image.px[p]

\* An image was written under a mask threshold below 10: it shows the trail
\* at a cell where the trail is above 10 and the background at a cell where
\* the trail is above the mask threshold but not above 10
C15_Witness ==
    /\ Finalized /\ result = "Written"
    /\ mask_threshold < FinalizeThreshold
    /\ \E p, q \in Cells(final_image) :
          /\ GrayAt(trail_image, p) > FinalizeThreshold
          /\ final_image.px[p] = trail_image.px[p]
          /\ final_image.px[p] # background_image.px[p]
          /\ GrayAt(trail_image, q) > mask_threshold
          /\ GrayAt(trail_image, q) <= FinalizeThreshold
          /\ final_image.px[q] = background_image.px[q]
          /\ final_image.px[q] # trail_image.px[q]

-----------------------------------------------------------------------------
MeanOf(i) == cv_mean(GrayOf(FrameOf(i)))

\* The processed frames that passed both filters and whose mean lies in the
\* open interval (background_image_min_brightness, 255)
Candidates ==
    { i \in ProcessCalls :
        /\ PassesBrightness(FrameOf(i)) /\ PassesCutoff(FrameOf(i))
        /\ Less(Whole(background_image_min_brightness), MeanOf(i))
        /\ Less(MeanOf(i), Whole(InitialBackgroundBrightness)) }

\* i is the earliest of the candidates with the least mean
EarliestDimmest(i) ==
    \A j \in Candidates :
        \/ Less(MeanOf(i), MeanOf(j))
        \/ (SameNumber(MeanOf(i), MeanOf(j)) /\ i <= j)

(* C16: at every point of a run whose processed frames all have the         *)
(* established dimensions, background_image is the earliest accepted frame  *)
(* whose mean is the least among the accepted frames with a mean strictly   *)
(* between background_image_min_brightness and 255, and                     *)
(* background_image_brightness is that mean; there is no background_image   *)
(* when no accepted frame has such a mean.  Frames left out as overbright   *)
(* or saturated are never chosen.                                           *)
C16_BackgroundIsEarliestDimmest ==
    AllEstablished =>
        IF Candidates = {}
        THEN background_image = None
        ELSE \E i \in Candidates :
                /\ EarliestDimmest(i)
                /\ background_image = FrameOf(i)
                /\ SameNumber(background_image_brightness, MeanOf(i))

\* A run accepted a frame, then two different frames of one lesser mean: the
\* first of the two is the background
C16_Witness ==
    /\ pc = "done" /\ AllEstablished
    /\ \E k, i, j \in Candidates :
          /\ k < i /\ i < j
          /\ Less(MeanOf(i), MeanOf(k))
          /\ SameNumber(MeanOf(i), MeanOf(j))
          /\ FrameOf(i) # FrameOf(j)
          /\ background_image = FrameOf(i)

-----------------------------------------------------------------------------
Pixels(img) == img.height * img.width

(* C17: pixels_cutoff is unset until the first call of processImage, which  *)
(* sets it to height * width * pixel_cutoff_threshold / 100 of its frame,   *)
(* whether it accepts that frame or not; no later step changes it,          *)
(* whatever frame it processes.                                             *)
C17_CutoffSetOnce ==
    [][ /\ pixels_cutoff = None
          => IF ProcessStep
             THEN pixels_cutoff'
                    = [value |-> Pixels(image') * pixel_cutoff_threshold]
             ELSE pixels_cutoff' = None
        /\ pixels_cutoff # None => pixels_cutoff' = pixels_cutoff ]_vars

\* The cutoff of an 8-pixel first frame is still in force after frames were
\* accepted and excluded and a frame of 100 pixels was processed
C17_Witness ==
    /\ image # None /\ Pixels(image) = 100
    /\ pixels_cutoff = [value |-> 8 * pixel_cutoff_threshold]
    /\ trail_count >= 1 /\ excluded_images >= 1

-----------------------------------------------------------------------------
(* C18, as stated: a call of processImage that fails because its frame      *)
(* does not have the established height, width and channel count leaves     *)
(* trail_count, excluded_images, background_image, its score and            *)
(* trail_image as they were before the call.                                *)
C18_FailedCallChangesNothing ==
    [][ (ProcessStep /\ result' = "cv2.error")
          => /\ ~SameShape(image', trail_image)
             /\ trail_count' = trail_count
             /\ excluded_images' = excluded_images
             /\ BackgroundSame
             /\ trail_image' = trail_image ]_vars

-----------------------------------------------------------------------------
\* The files main has discovered
Discovered == { file_list[k] : k \in 1..Len(file_list) }

\* Those of them that are not empty and can be decoded
Readable == { f \in Discovered : f.st_size # 0 /\ f.imread # None }

\* The files passed to processImage so far
Passed == { calls[i].file : i \in ProcessCalls }

\* processImage has been called on files in ascending st_mtime order, on no
\* file twice, on no empty or undecodable file, and on no file while an older
\* readable one was still waiting
CalledInOrder ==
    /\ \A i, j \in ProcessCalls :
          i < j => /\ calls[i].file.st_mtime <= calls[j].file.st_mtime
                   /\ calls[i].file # calls[j].file
    /\ Passed \subseteq Readable
    /\ \A f \in Readable \ Passed :
          \A g \in Passed : g.st_mtime <= f.st_mtime

\* finalize is only called as the last call, after every readable file
FinalizeLast ==
    \A i \in FinalizeCalls : i = Len(calls) /\ Passed = Readable

\* The run was ended by an exception of processImage
EndedByProcessImage ==
    /\ calls # << >>
    /\ calls[Len(calls)].op = "processImage"
    /\ calls[Len(calls)].result = "cv2.error"

(* C19, as stated: in a run, processImage is called on the discovered files *)
(* in ascending st_mtime order, never on an empty file nor on one that      *)
(* cannot be decoded, neither of which keeps the other files from being     *)
(* processed; and when the run is over every readable file has been         *)
(* processed and finalize has been called exactly once, after them.         *)
C19_AllInOrderThenFinalize ==
    /\ CalledInOrder
    /\ FinalizeLast
    /\ pc = "done" => (Passed = Readable /\ Cardinality(FinalizeCalls) = 1)

(* C19, amended: as above, except that a call of processImage that raises   *)
(* ends the run at that file: the files after it are not processed and      *)
(* finalize is not called.  A run in which no call raises processes every   *)
(* readable file and then calls finalize exactly once.                      *)
C19_InOrderUntilRaise ==
    /\ CalledInOrder
    /\ FinalizeLast
    /\ pc = "done" =>
          IF EndedByProcessImage
          THEN FinalizeCalls = {} /\ raised = CvError
          ELSE Passed = Readable /\ Cardinality(FinalizeCalls) = 1
    /\ \A i \in ProcessCalls :
          calls[i].result = "cv2.error" => (i = Len(calls) /\ pc = "done")

\* A run over a folder that holds an empty file, a file that does not decode
\* and two readable files found newest first: the older was processed first,
\* the undecodable one lay between them, and finalize was called once
C19_Witness ==
    /\ pc = "done" /\ raised = None
    /\ Cardinality(FinalizeCalls) = 1
    /\ \E f \in Discovered : f.st_size = 0
    /\ \E k, l \in 1..Len(file_list) :
          /\ k < l
          /\ file_list[k] \in Readable /\ file_list[l] \in Readable
          /\ file_list[k].st_mtime > file_list[l].st_mtime
          /\ \E i, j \in ProcessCalls :
                /\ i < j
                /\ calls[i].file = file_list[l] /\ calls[j].file = file_list[k]
          /\ \E u \in Discovered :
                /\ u.st_size # 0 /\ u.imread = None
                /\ u.st_mtime <= file_list[k].st_mtime

-----------------------------------------------------------------------------
(* C20, as stated: whatever mask_threshold is configured, when finalize has *)
(* written its image, every cell of trail_image that an accepted frame has  *)
(* painted (the cells that are not zero) shows its trail_image sample in    *)
(* that image; none shows the sample of background_image instead.           *)
C20_PaintedPixelsSurvive ==
    (Finalized /\ result = "Written")
        => \A p \in Cells(trail_image) :
              trail_image.px[p] # ZeroSample(trail_image.channels)
                => final_image.px[p] = trail_image.px[p]

-----------------------------------------------------------------------------
\* The two images a compositing step adds: under of the old content, masked
\* by the inverse of the mask, and over, masked by the mask, the mask being
\* the grayscale of from taken at thold
Summands(under, over, from, thold) ==
    LET mask == cv_threshold(GrayOf(from), thold)
    IN  [bg_masked    |-> cv_bitwise_and(under, cv_bitwise_not(mask)),
         stars_masked |-> cv_bitwise_and(over, mask)]

\* At every cell one of the two summands is zero in every channel, no
\* channel sum exceeds 255, and out holds the sample of under or of over
ExactlyOneOf(sum, under, over, out) ==
    \A p \in Cells(out) :
        /\ \/ sum.bg_masked.px[p] = ZeroSample(out.channels)
           \/ sum.stars_masked.px[p] = ZeroSample(out.channels)
        /\ \A k \in 1..out.channels :
              sum.bg_masked.px[p][k] + sum.stars_masked.px[p][k] <= 255
        /\ out.px[p] \in { under.px[p], over.px[p] }

(* C21: in the compositing step of processImage (the trail image under the  *)
(* frame's stars) and in that of finalize (the background under the trail)  *)
(* the two images added are masked by complementary masks: at every cell    *)
(* one of the two summands is zero in every channel, so the saturating      *)
(* addition never clips and each sample of the result is the sample of one  *)
(* of the two inputs.                                                       *)
C21_SummandsNeverOverlap ==
    [][ /\ (ProcessStep /\ result' = "Accepted")
          => ExactlyOneOf(Summands(TrailAtCall(image'), image', image',
                                   mask_threshold),
                          TrailAtCall(image'), image', trail_image')
        /\ (FinalizeStep /\ result' = "Written")
          => ExactlyOneOf(Summands(background_image, trail_image, trail_image,
                                   FinalizeThreshold),
                          background_image, trail_image, final_image') ]_vars

\* An image was written that shows the trail at a cell where trail and
\* background together exceed 255, and the background at a cell where it is
\* not zero
C21_Witness ==
    /\ Finalized /\ result = "Written"
    /\ \E p, q \in Cells(final_image) :
          /\ trail_image.px[p][1] + background_image.px[p][1] > 255
          /\ final_image.px[p] = trail_image.px[p]
          /\ background_image.px[q] # ZeroSample(background_image.channels)
          /\ final_image.px[q] = background_image.px[q]
          /\ final_image.px[q] # trail_image.px[q]

-----------------------------------------------------------------------------
(* C22: in every state, background_image is absent exactly when             *)
(* background_image_brightness still holds its initial value 255; and when  *)
(* background_image is present, trail_count is at least 1 and the score     *)
(* lies strictly between background_image_min_brightness and 255.           *)
C22_BackgroundAndScoreAgree ==
    /\ background_image = None
         <=> SameNumber(background_image_brightness,
                        Whole(InitialBackgroundBrightness))
    /\ background_image # None
         => /\ trail_count >= 1
            /\ Less(Whole(background_image_min_brightness),
                    background_image_brightness)
            /\ Less(background_image_brightness,
                    Whole(InitialBackgroundBrightness))

\* A background is held, with its score, after a frame too dark to be one
\* was accepted and a frame was excluded
C22_Witness ==
    /\ background_image # None
    /\ SameNumber(background_image_brightness, cv_mean(GrayOf(background_image)))
    /\ result = "Accepted" /\ image # None
    /\ ~MeanAbove(image, background_image_min_brightness)
    /\ trail_count >= 2 /\ excluded_images >= 1

-----------------------------------------------------------------------------
(* C23, as stated: whatever callbacks have run, for whatever devices and    *)
(* property names, a callback calls takeExposure only when the client's     *)
(* device is set, to the device named CCD_NAME; it is never called while    *)
(* device is still None.                                                    *)
C23_ExposureOnlyWithDevice ==
    callback.takeExposure
        => (device # None /\ device.getDeviceName = CCD_NAME)

-----------------------------------------------------------------------------
\* The rows of the camera table that bear the name
RowsNamed(table, n) == { r \in table : r.name = n }

(* C24: after every call of addCamera the camera table holds exactly one    *)
(* row for each name addCamera has been called with.  A call with a name    *)
(* that has a row adds no row: it sets that row's connectDate to the time   *)
(* of the call, leaves its id, and returns it; a call with a name that has  *)
(* none adds exactly one row, of that name and connectDate, and returns it. *)
(* The rows of other names are left as they were.                           *)
C24_OneRowPerName ==
    [][ \A n \in CameraNames : \A now \in 0..MaxClock :
          AddCamera(n, now)
            => /\ \A m \in camera_names' :
                     Cardinality(RowsNamed(camera_table', m)) = 1
               /\ camera' \in camera_table'
               /\ camera'.name = n /\ camera'.connectDate = now
               /\ \A m \in CameraNames \ { n } :
                     RowsNamed(camera_table', m) = RowsNamed(camera_table, m)
               /\ IF RowsNamed(camera_table, n) # {}
                  THEN /\ Cardinality(camera_table') = Cardinality(camera_table)
                       /\ \E r \in RowsNamed(camera_table, n) : camera'.id = r.id
                  ELSE /\ Cardinality(camera_table')
                            = Cardinality(camera_table) + 1
                       /\ \A r \in camera_table : camera'.id # r.id ]_vars

\* addCamera was called again with the name of a row added at an earlier
\* time, while the table holds the rows of two more names
C24_Witness ==
    /\ Cardinality(camera_table) = 3
    /\ Cardinality(camera_names) = 3
    /\ camera # None
    /\ camera.id = 1 /\ camera.connectDate = MaxClock
    /\ \E r \in camera_table : r.id > camera.id /\ r.connectDate < camera.connectDate

====
